---------------------------- MODULE Spec2Model ----------------------------
(*
  Model of convert-burp-suite-http-proxy-history-to-csv.py.

  Text is a sequence of one-character strings, so that splitting, stripping,
  escaping and truncating are computed character by character.  Dictionary
  keys and file names are strings, obtained by joining the characters.
*)
EXTENDS Integers, Sequences, FiniteSets, TLC

(***************************************************************************)
(* Text helpers (Python str operations used by the script)                 *)
(***************************************************************************)

RECURSIVE Join(_)
\* ''.join(chars): the string made of the characters of a text
Join(s) == IF s = <<>> THEN "" ELSE Head(s) \o Join(Tail(s))

\* s[i:] (zero-based i), the text from character i+1 on
From(s, i) == SubSeq(s, i + 1, Len(s))

\* s[:i] for 0 <= i, the first i characters (all of s when it is shorter)
Upto(s, i) == SubSeq(s, 1, IF i < Len(s) THEN i ELSE Len(s))

\* s.startswith(pat) at position i (one-based)
MatchAt(s, pat, i) ==
    /\ i + Len(pat) - 1 <= Len(s)
    /\ \A k \in 1..Len(pat) : s[i + k - 1] = pat[k]

\* s.find(pat) + 1: one-based index of the first occurrence of pat, 0 if none
Find(s, pat) ==
    IF \E i \in 1..Len(s) : MatchAt(s, pat, i)
    THEN CHOOSE i \in 1..Len(s) :
            /\ MatchAt(s, pat, i)
            /\ \A j \in 1..(i - 1) : ~MatchAt(s, pat, j)
    ELSE 0

RECURSIVE Replace(_, _, _)
\* s.replace(old, new) for a one-character old
Replace(s, old, new) ==
    IF s = <<>> THEN <<>>
    ELSE (IF Head(s) = old THEN new ELSE <<Head(s)>>) \o Replace(Tail(s), old, new)

RECURSIVE LStrip(_, _)
\* s.lstrip(chars)
LStrip(s, chars) ==
    IF s # <<>> /\ Head(s) \in chars THEN LStrip(Tail(s), chars) ELSE s

RECURSIVE RStrip(_, _)
\* s.rstrip(chars)
RStrip(s, chars) ==
    IF s # <<>> /\ s[Len(s)] \in chars THEN RStrip(Upto(s, Len(s) - 1), chars) ELSE s

UpperAZ == <<"A","B","C","D","E","F","G","H","I","J","K","L","M",
             "N","O","P","Q","R","S","T","U","V","W","X","Y","Z">>
LowerAZ == <<"a","b","c","d","e","f","g","h","i","j","k","l","m",
             "n","o","p","q","r","s","t","u","v","w","x","y","z">>

\* str.lower() of one character
LowerChar(c) ==
    IF \E i \in 1..26 : UpperAZ[i] = c
    THEN LowerAZ[CHOOSE i \in 1..26 : UpperAZ[i] = c]
    ELSE c

\* str.lower()
Lower(s) == [i \in 1..Len(s) |-> LowerChar(s[i])]

Digits == <<"0","1","2","3","4","5","6","7","8","9">>

RECURSIVE IntToStr(_)
\* str(n) for a natural number, as the f-string renders rowIndex
IntToStr(n) ==
    IF n < 10 THEN <<Digits[n + 1]>>
    ELSE IntToStr(n \div 10) \o <<Digits[(n % 10) + 1]>>

\* results of operations that may raise
Ok(v) == [exc |-> "none", val |-> v]
Raise(e) == [exc |-> e, val |-> <<>>]

(***************************************************************************)
(* JsonFileFormatHandler.jsonFromHttp                                      *)
(***************************************************************************)

\* fp.readline(): the text up to and including the first "\n", or all of it
ReadLine(s) ==
    LET i == Find(s, <<"\n">>) IN IF i = 0 THEN s ELSE Upto(s, i)

BlankLines == {<<"\r", "\n">>, <<"\n">>, <<>>}

RECURSIVE ReadHeadersLen(_)
\* http.client._read_headers: number of characters consumed from the stream,
\* through the first blank line (or the end of the stream)
ReadHeadersLen(s) ==
    LET line == ReadLine(s) IN
    IF line \in BlankLines THEN Len(line)
    ELSE Len(line) + ReadHeadersLen(From(s, Len(line)))

RECURSIVE SplitLines(_)
\* str.splitlines(True) as the email feed parser uses it: lines end at
\* "\r\n", "\n" or "\r" and keep their terminator
SplitLines(s) ==
    IF s = <<>> THEN <<>>
    ELSE LET ends == {i \in 1..Len(s) : s[i] \in {"\r", "\n"}}
             i == IF ends = {} THEN Len(s)
                  ELSE CHOOSE e \in ends : \A f \in ends : e <= f
             n == IF ends # {} /\ s[i] = "\r" /\ i < Len(s) /\ s[i + 1] = "\n"
                  THEN i + 1 ELSE i
         IN <<Upto(s, n)>> \o SplitLines(From(s, n))

\* email.feedparser.headerRE without its "From " alternative:
\* a continuation line, or printable non-blank characters followed by a colon
IsHeaderLine(line) ==
    /\ line # <<>>
    /\ \/ line[1] \in {" ", "\t"}
       \/ \E i \in 1..Len(line) :
            /\ line[i] = ":"
            /\ \A j \in 1..(i - 1) : line[j] \notin {" ", "\t", "\r", "\n", ":"}

RECURSIVE HeaderLines(_)
\* FeedParser._parsegen: the leading lines that match headerRE
HeaderLines(lines) ==
    IF lines # <<>> /\ IsHeaderLine(Head(lines))
    THEN <<Head(lines)>> \o HeaderLines(Tail(lines))
    ELSE <<>>

\* Compat32.header_source_parse: (name, value) of a header and its continuations
header_source_parse(first, conts) ==
    LET i == Find(first, <<":">>)
    IN <<Upto(first, i - 1),
         RStrip(LStrip(From(first, i), {" ", "\t"}) \o conts, {"\r", "\n"})>>

RECURSIVE ParseHeaderLines(_, _, _, _)
\* FeedParser._parse_headers: lastheader / lastvalue accumulate one header
\* and its continuation lines; a line starting with ":" is dropped
ParseHeaderLines(lines, has, first, conts) ==
    LET flush == IF has THEN <<header_source_parse(first, conts)>> ELSE <<>> IN
    IF lines = <<>> THEN flush
    ELSE LET line == Head(lines) IN
         IF line[1] \in {" ", "\t"}
         THEN IF has THEN ParseHeaderLines(Tail(lines), TRUE, first, conts \o line)
              ELSE ParseHeaderLines(Tail(lines), FALSE, <<>>, <<>>)
         ELSE IF line[1] = ":"
              THEN flush \o ParseHeaderLines(Tail(lines), FALSE, <<>>, <<>>)
              ELSE flush \o ParseHeaderLines(Tail(lines), TRUE, line, <<>>)

\* http.client.parse_headers: the list of (name, value) pairs of the message
parse_headers(hstring) ==
    ParseHeaderLines(HeaderLines(SplitLines(hstring)), FALSE, <<>>, <<>>)

\* Message.__getitem__ read as "the last header of that name"
MessageGetLast(headers, name) ==
    LET hits == {i \in 1..Len(headers) : Lower(headers[i][1]) = Lower(name)}
    IN headers[CHOOSE i \in hits : \A j \in hits : j <= i][2]

\* Message.__getitem__: the value of the first header whose name matches
\* case-insensitively
MessageGet(headers, name) ==
    LET hits == {i \in 1..Len(headers) : Lower(headers[i][1]) = Lower(name)}
    IN headers[CHOOSE i \in hits : \A j \in hits : i <= j][2]

\* res[key] = value on a dictionary
DictSet(d, key, value) ==
    [k \in DOMAIN d \cup {key} |-> IF k = key THEN value ELSE d[k]]

RECURSIVE CopyHeaders(_, _, _)
\* for key in message.keys(): res[key] = message[key]
CopyHeaders(res, headers, i) ==
    IF i > Len(headers) THEN res
    ELSE CopyHeaders(DictSet(res, Join(headers[i][1]), MessageGet(headers, headers[i][1])),
                     headers, i + 1)

EmptyDict == [k \in {} |-> <<>>]

\* jsonFromHttp(string): the dictionary written to .req.json / .res.json,
\* or ValueError when a split yields one part only
jsonFromHttp(string) ==
    IF string = <<>> THEN Ok(EmptyDict)
    ELSE LET i == Find(string, <<"\r", "\n">>) IN
         IF i = 0 THEN Raise("ValueError")
         ELSE LET requestLine == Upto(string, i - 1)
                  rest == From(string, i + 1)
                  j == Find(requestLine, <<" ">>)
              IN IF j = 0 THEN Raise("ValueError")
                 ELSE LET method == Upto(requestLine, j - 1)
                          url == From(requestLine, j)
                          n == ReadHeadersLen(rest)
                          message == parse_headers(Upto(rest, n))
                          body == From(rest, n)
                          res == [k \in {"method", "url"} |->
                                    IF k = "method" THEN method ELSE url]
                      IN Ok(DictSet(CopyHeaders(res, message, 1), "body", body))


(***************************************************************************)
(* base64decode and html.escape                                            *)
(***************************************************************************)

\* A byte that is not valid UTF-8 (0xff); every other byte of a blob is ASCII
BadByte == "0xff"

RECURSIVE Utf8Decode(_)
\* bytes.decode('UTF-8', errors='backslashreplace'), computed by halves so
\* that long texts do not nest deeply
Utf8Decode(bytes) ==
    IF bytes = <<>> THEN <<>>
    ELSE IF Len(bytes) = 1
         THEN (IF bytes[1] = BadByte THEN <<"\\", "x", "f", "f">> ELSE bytes)
         ELSE LET half == Len(bytes) \div 2
              IN Utf8Decode(Upto(bytes, half)) \o Utf8Decode(From(bytes, half))

\* base64decode(line).  A blob is the base64 text of the source document,
\* held as the bytes it encodes and whether its padding is correct;
\* base64.b64decode raises binascii.Error on incorrect padding.
base64decode(line) ==
    IF line.padded THEN Ok(Utf8Decode(line.bytes)) ELSE Raise("binascii.Error")

\* html.escape(s, quote=True): "&" first, then "<", ">", the two quotes
html_escape(s) ==
    Replace(Replace(Replace(Replace(Replace(s,
        "&", <<"&", "a", "m", "p", ";">>),
        "<", <<"&", "l", "t", ";">>),
        ">", <<"&", "g", "t", ";">>),
        "\"", <<"&", "q", "u", "o", "t", ";">>),
        "'", <<"&", "#", "x", "2", "7", ";">>)

(***************************************************************************)
(* The format handlers.  A method takes the world w = [h, files, handles,   *)
(* log]: the handler object, the file system, the set of open handles and  *)
(* the list of files opened for writing so far; it returns the world after *)
(* the call, with the exception raised if any.                             *)
(***************************************************************************)

Done(w) == [exc |-> "none", w |-> w]
Fail(e, w) == [exc |-> e, w |-> w]

\* FormatHandlerBase.__init__ ... FILENAME_SUFFIX of the three classes
FILENAME_SUFFIX(fmt) ==
    CASE fmt = "html" -> <<".", "h", "t", "m", "l">>
      [] fmt = "csv" -> <<".", "c", "s", "v">>
      [] fmt = "json" -> <<".", "j", "s", "o", "n">>

\* the handler object after FORMATS[args.format](args.filename)
NewHandler(fmt, name) ==
    [filename |-> name \o FILENAME_SUFFIX(fmt),
     output_file |-> "", header |-> <<>>, row |-> <<>>,
     baseFile |-> <<>>, rowIndex |-> 0, colIndex |-> 0,
     fileData |-> EmptyDict, request |-> <<>>, response |-> <<>>]

\* print(text, file=f) and writer.writerow(row): one more line in the file
WriteLine(w, name, line) ==
    [w EXCEPT !.files = [@ EXCEPT ![name] = Append(@, line)]]

HTML_HEADER == "<!DOCTYPE html>\n<html>\n    <head>\n    <title>Burp Suite proxy history</title>\n    <style>\n    table {\n        border-collapse: collapse;\n    }\n    table, th, td {\n        border: 1px solid black;\n        font-family: Arial, sans-serif;\n        padding: 5px;\n    }\n    th {\n        text-align: left;\n    }\n    td {\n        vertical-align: top;\n    }\n    </style>\n    </head>\n    <body>\n        <table><thead><tr>\n"
HTML_FOOTER == "</tbody></table>\n</body></html>\n"

\* HtmlFormatHandler: a printed line is the text of its pieces, the literal
\* parts of a template being one piece each
html_set_output_file(w, output_file) ==
    Done([w EXCEPT !.h.output_file = Join(output_file.name)])
html_header_prefix(w) == Done(WriteLine(w, w.h.output_file, <<HTML_HEADER>>))
html_header_suffix(w) == Done(WriteLine(w, w.h.output_file, <<"</tr></thead><tbody>">>))
html_header_column(w, column_name) ==
    Done(WriteLine(w, w.h.output_file, <<"<th>", column_name, "</th>">>))
html_row_prefix(w) == Done(WriteLine(w, w.h.output_file, <<"<tr>">>))
html_row_suffix(w) == Done(WriteLine(w, w.h.output_file, <<"</tr>">>))
html_footer(w) == Done(WriteLine(w, w.h.output_file, <<HTML_FOOTER>>))

\* HtmlFormatHandler.row_column writing the decoded blob as it is
html_row_column_raw(w, content, encoded) ==
    IF encoded
    THEN LET d == base64decode(content) IN
         IF d.exc # "none" THEN Fail(d.exc, w)
         ELSE Done(WriteLine(w, w.h.output_file,
                             <<"<td><pre>">> \o d.val \o <<"</pre></td>">>))
    ELSE Done(WriteLine(w, w.h.output_file, <<"<td>">> \o content \o <<"</td>">>))

html_row_column(w, content, encoded) ==
    IF encoded
    THEN LET d == base64decode(content) IN
         IF d.exc # "none" THEN Fail(d.exc, w)
         ELSE Done(WriteLine(w, w.h.output_file,
                             <<"<td><pre>">> \o html_escape(d.val) \o <<"</pre></td>">>))
    ELSE Done(WriteLine(w, w.h.output_file, <<"<td>">> \o content \o <<"</td>">>))

\* the largest cell the CSV handler leaves alone, the length it cuts to and
\* the marker it appends
CELL_LIMIT == 32760
CELL_KEEP == 32744
TRUNCATED == <<".", ".", "[", "T", "R", "U", "N", "C", "A", "T", "E", "D", "!", "]">>

\* CsvFormatHandler: the file holds the rows csv.writer was given
csv_set_output_file(w, output_file) ==
    Done([w EXCEPT !.h.output_file = Join(output_file.name), !.h.header = <<>>])
csv_header_prefix(w) == Done(w)
csv_header_suffix(w) == Done(WriteLine(w, w.h.output_file, w.h.header))
csv_header_column(w, column_name) == Done([w EXCEPT !.h.header = Append(@, column_name)])
csv_row_prefix(w) == Done([w EXCEPT !.h.row = <<>>])
csv_row_suffix(w) == Done(WriteLine(w, w.h.output_file, w.h.row))
csv_footer(w) == Done(w)

\* CsvFormatHandler.row_column cutting at the limit itself
csv_row_column_cut_at_limit(w, content, encoded) ==
    LET d == IF encoded THEN base64decode(content) ELSE Ok(content) IN
    IF d.exc # "none" THEN Fail(d.exc, w)
    ELSE LET cell == IF d.val # <<>> /\ Len(d.val) > CELL_LIMIT
                     THEN Upto(d.val, CELL_LIMIT) \o TRUNCATED
                     ELSE d.val
         IN Done([w EXCEPT !.h.row = Append(@, cell)])

csv_row_column(w, content, encoded) ==
    LET d == IF encoded THEN base64decode(content) ELSE Ok(content) IN
    IF d.exc # "none" THEN Fail(d.exc, w)
    ELSE LET cell == IF d.val # <<>> /\ Len(d.val) > CELL_LIMIT
                     THEN Upto(d.val, CELL_KEEP) \o TRUNCATED
                     ELSE d.val
         IN Done([w EXCEPT !.h.row = Append(@, cell)])

\* JsonFileFormatHandler.writeJsonFile: open(fileName, "w") creates or
\* truncates the file (or raises OSError), the dictionary is written and the
\* with-block closes the handle
writeJsonFile(w, fileName, dictionary, oserror) ==
    IF oserror THEN Fail("OSError", w)
    ELSE Done([w EXCEPT !.files = (Join(fileName) :> dictionary) @@ @,
                        !.handles = (@ \cup {Join(fileName)}) \ {Join(fileName)},
                        !.log = Append(@, fileName)])

json_set_output_file(w, output_file) ==
    Done([w EXCEPT !.h.baseFile = Upto(output_file.name, Len(output_file.name) - 4),
                   !.h.rowIndex = 0])
json_header_prefix(w) == Done([w EXCEPT !.h.header = <<>>])
json_header_suffix(w) == Done(w)
json_header_column(w, column_name) == Done([w EXCEPT !.h.header = Append(@, column_name)])
json_row_prefix(w) ==
    Done([w EXCEPT !.h.fileData = [k \in {"index"} |-> w.h.rowIndex],
                   !.h.colIndex = 0])
json_footer(w) == Done(w)

json_row_column(w, content, encoded) ==
    LET d == IF encoded THEN base64decode(content) ELSE Ok(content) IN
    IF d.exc # "none" THEN Fail(d.exc, w)
    ELSE LET colName == w.h.header[w.h.colIndex + 1]
             w1 == IF colName = "Request" THEN [w EXCEPT !.h.request = d.val]
                   ELSE IF colName = "Response" THEN [w EXCEPT !.h.response = d.val]
                   ELSE [w EXCEPT !.h.fileData = DictSet(@, colName, d.val)]
         IN Done([w1 EXCEPT !.h.colIndex = @ + 1])

\* row_suffix that keeps the row index where it is
json_row_suffix_no_increment(w, failAt) ==
    LET timePart == Replace(Replace(w.h.fileData["Time"], ":", <<>>), " ", <<"_">>)
        stem == w.h.baseFile \o <<"_">> \o timePart \o <<"_">> \o IntToStr(w.h.rowIndex)
        r1 == writeJsonFile(w, stem \o <<".", "j", "s", "o", "n">>, w.h.fileData, failAt = 1)
        req == jsonFromHttp(w.h.request)
        r2 == writeJsonFile(r1.w, stem \o <<".", "r", "e", "q", ".", "j", "s", "o", "n">>,
                            req.val, failAt = 2)
        res == jsonFromHttp(w.h.response)
        r3 == writeJsonFile(r2.w, stem \o <<".", "r", "e", "s", ".", "j", "s", "o", "n">>,
                            res.val, failAt = 3)
    IN IF r1.exc # "none" THEN r1
       ELSE IF req.exc # "none" THEN Fail(req.exc, r1.w)
       ELSE IF r2.exc # "none" THEN r2
       ELSE IF res.exc # "none" THEN Fail(res.exc, r2.w)
       ELSE IF r3.exc # "none" THEN r3
       ELSE Done(r3.w)

\* JsonFileFormatHandler.row_suffix; failAt = k makes the k-th open() of the
\* call raise OSError, failAt = 0 lets all three succeed
json_row_suffix(w, failAt) ==
    LET timePart == Replace(Replace(w.h.fileData["Time"], ":", <<>>), " ", <<"_">>)
        stem == w.h.baseFile \o <<"_">> \o timePart \o <<"_">> \o IntToStr(w.h.rowIndex)
        r1 == writeJsonFile(w, stem \o <<".", "j", "s", "o", "n">>, w.h.fileData, failAt = 1)
        req == jsonFromHttp(w.h.request)
        r2 == writeJsonFile(r1.w, stem \o <<".", "r", "e", "q", ".", "j", "s", "o", "n">>,
                            req.val, failAt = 2)
        res == jsonFromHttp(w.h.response)
        r3 == writeJsonFile(r2.w, stem \o <<".", "r", "e", "s", ".", "j", "s", "o", "n">>,
                            res.val, failAt = 3)
    IN IF r1.exc # "none" THEN r1
       ELSE IF req.exc # "none" THEN Fail(req.exc, r1.w)
       ELSE IF r2.exc # "none" THEN r2
       ELSE IF res.exc # "none" THEN Fail(res.exc, r2.w)
       ELSE IF r3.exc # "none" THEN r3
       ELSE Done([r3.w EXCEPT !.h.rowIndex = @ + 1])

\* dispatch on the class of format_handler
set_output_file(fmt, w, output_file) ==
    CASE fmt = "html" -> html_set_output_file(w, output_file)
      [] fmt = "csv" -> csv_set_output_file(w, output_file)
      [] fmt = "json" -> json_set_output_file(w, output_file)
header_prefix(fmt, w) ==
    CASE fmt = "html" -> html_header_prefix(w)
      [] fmt = "csv" -> csv_header_prefix(w)
      [] fmt = "json" -> json_header_prefix(w)
header_column(fmt, w, column_name) ==
    CASE fmt = "html" -> html_header_column(w, column_name)
      [] fmt = "csv" -> csv_header_column(w, column_name)
      [] fmt = "json" -> json_header_column(w, column_name)
header_suffix(fmt, w) ==
    CASE fmt = "html" -> html_header_suffix(w)
      [] fmt = "csv" -> csv_header_suffix(w)
      [] fmt = "json" -> json_header_suffix(w)
row_prefix(fmt, w) ==
    CASE fmt = "html" -> html_row_prefix(w)
      [] fmt = "csv" -> csv_row_prefix(w)
      [] fmt = "json" -> json_row_prefix(w)
row_column(fmt, w, content, encoded) ==
    CASE fmt = "html" -> html_row_column(w, content, encoded)
      [] fmt = "csv" -> csv_row_column(w, content, encoded)
      [] fmt = "json" -> json_row_column(w, content, encoded)
row_suffix(fmt, w, failAt) ==
    CASE fmt = "html" -> html_row_suffix(w)
      [] fmt = "csv" -> csv_row_suffix(w)
      [] fmt = "json" -> json_row_suffix(w, failAt)
footer(fmt, w) ==
    CASE fmt = "html" -> html_footer(w)
      [] fmt = "csv" -> csv_footer(w)
      [] fmt = "json" -> json_footer(w)

(***************************************************************************)
(* The input: args.filename, args.format and the parsed http_history       *)
(***************************************************************************)

\* bounds of the model
MaxRecords == 2
MaxHeaders == 2
MaxBlobLen == 3
CellSlack == 2

FORMATS == {"html", "csv", "json"}
FileNames == {<<"h">>}

\* a blob: the base64 text of an element of the source document.  The text
\* is never empty (xmltodict gives "#text" only for an element with text), so
\* the test "content and encoded" of row_column is the test "encoded".
B64(bytes) == [padded |-> TRUE, bytes |-> bytes]
BadPadding == [padded |-> FALSE, bytes |-> <<>>]

ReqA == <<"G","E","T"," ","/","a"," ","H","T","T","P","/","1",".","1","\r","\n","\r","\n">>
ReqHost == <<"G","E","T"," ","/","a"," ","H","T","T","P","/","1",".","1","\r","\n",
             "H","o","s","t",":"," ","x","\r","\n","\r","\n","b","o","d","y">>
ResOK == <<"H","T","T","P","/","1",".","1"," ","2","0","0"," ","O","K","\r","\n",
           "\r","\n","<","b",">","&",BadByte>>
NoSpace == <<"G","E","T","\r","\n","\r","\n">>
Noon == <<"1","2",":","0","0",":","0","0">>
Dated == <<"T","u","e"," ","1","2",":","0","1">>

\* an item of the history as xmltodict returns it; a request or response
\* element without text has no "#text" entry (here: no text field)
Item(time, request, response) ==
    [time |-> time, url |-> <<"u">>, host |-> [text |-> <<"h">>, ip |-> <<"i">>],
     port |-> <<"8">>, protocol |-> <<"p">>, method |-> <<"m">>, path |-> <<"/">>,
     extension |-> <<"e">>, request |-> request, status |-> <<"2">>,
     responselength |-> <<"9">>, mimetype |-> <<"t">>, response |-> response,
     comment |-> <<"c">>]
WithText(blob) == [base64 |-> "true", text |-> blob]
NoText == [base64 |-> "true"]

Items == {
    Item(Noon, WithText(B64(ReqA)), NoText),
    Item(Noon, WithText(B64(ReqHost)), WithText(B64(ResOK))),
    Item(Dated, WithText(B64(ReqA)), WithText(B64(<<>>))),
    Item(Noon, NoText, WithText(B64(ResOK))),
    Item(Noon, WithText(BadPadding), WithText(B64(ResOK))),
    Item(Dated, WithText(B64(NoSpace)), WithText(B64(ResOK))) }

RECURSIVE SeqsUpTo(_, _)
\* the sequences of at most n elements of S
SeqsUpTo(S, n) ==
    IF n = 0 THEN {<<>>}
    ELSE LET shorter == SeqsUpTo(S, n - 1)
         IN shorter \cup {Append(q, x) : q \in shorter, x \in S}

(***************************************************************************)
(* convert_to_output_file                                                  *)
(***************************************************************************)

VARIABLES fmt, filename, history, pc, line, col, calls, handler, files,
          handles, writes, err, input, output

vars == <<fmt, filename, history, pc, line, col, calls, handler, files,
          handles, writes, err, input, output>>

\* the header_column calls with the first two exchanged
HeaderNamesUrlFirst == <<"URL", "Time", "Hostname", "IP address", "Port", "Protocol",
                         "Method", "Path", "Extension", "Request", "Status",
                         "Response length", "MIME type", "Response", "Comment">>

\* the column names of the fifteen header_column calls, in order
HeaderNames == <<"Time", "URL", "Hostname", "IP address", "Port", "Protocol",
                 "Method", "Path", "Extension", "Request", "Status",
                 "Response length", "MIME type", "Response", "Comment">>

NONE == <<"N", "o", "n", "e">>

\* the arguments of the c-th row_column call for an item
RowArg(item, c) ==
    CASE c = 1 -> [content |-> item.time, encoded |-> FALSE]
      [] c = 2 -> [content |-> item.url, encoded |-> FALSE]
      [] c = 3 -> [content |-> item.host.text, encoded |-> FALSE]
      [] c = 4 -> [content |-> item.host.ip, encoded |-> FALSE]
      [] c = 5 -> [content |-> item.port, encoded |-> FALSE]
      [] c = 6 -> [content |-> item.protocol, encoded |-> FALSE]
      [] c = 7 -> [content |-> item.method, encoded |-> FALSE]
      [] c = 8 -> [content |-> item.path, encoded |-> FALSE]
      [] c = 9 -> [content |-> item.extension, encoded |-> FALSE]
      [] c = 10 -> IF "text" \in DOMAIN item.request
                   THEN [content |-> item.request.text, encoded |-> TRUE]
                   ELSE [content |-> NONE, encoded |-> FALSE]
      [] c = 11 -> [content |-> item.status, encoded |-> FALSE]
      [] c = 12 -> [content |-> item.responselength, encoded |-> FALSE]
      [] c = 13 -> [content |-> item.mimetype, encoded |-> FALSE]
      [] c = 14 -> IF "text" \in DOMAIN item.response
                   THEN [content |-> item.response.text, encoded |-> TRUE]
                   ELSE [content |-> NONE, encoded |-> FALSE]
      [] c = 15 -> [content |-> item.comment, encoded |-> FALSE]

\* an entry of the call log: the method called and its arguments
NoArg == [encoded |-> FALSE, padded |-> TRUE, text |-> <<>>]
Shown(arg) ==
    IF arg.encoded
    THEN [encoded |-> TRUE, padded |-> arg.content.padded, text |-> arg.content.bytes]
    ELSE [encoded |-> FALSE, padded |-> TRUE, text |-> arg.content]
Call(op, name, arg) == [op |-> op, name |-> name, arg |-> arg]

\* the with-statement releasing the output file only when no exception is raised
ExitWithOnSuccess(open, name, raised) == IF raised THEN open ELSE open \ {name}

\* the with-statement of convert_to_output_file leaving its block: the output
\* file is closed whether or not an exception is being raised
ExitWith(open, name, raised) == open \ {name}

OutName == Join(handler.filename)

World == [h |-> handler, files |-> files, handles |-> handles, log |-> writes]

\* how many writes to the file system a call of the handler makes
WritePoints(step) ==
    CASE fmt = "html" -> 1
      [] fmt = "csv" -> IF step \in {"header_suffix", "row_suffix"} THEN 1 ELSE 0
      [] fmt = "json" -> IF step = "row_suffix" THEN 3 ELSE 0

\* a call whose only write fails raises OSError and changes nothing
Writing(failAt, r) == IF failAt = 1 THEN Fail("OSError", World) ELSE r

\* the converter after a call that returned r: it goes on to the next call,
\* or the exception leaves the with-block and ends the run
After(call, r, nextpc, nextline, nextcol) ==
    /\ calls' = Append(calls, call)
    /\ handler' = r.w.h
    /\ files' = r.w.files
    /\ writes' = r.w.log
    /\ IF r.exc = "none"
       THEN /\ pc' = nextpc
            /\ line' = nextline
            /\ col' = nextcol
            /\ err' = err
            /\ handles' = IF nextpc = "done"
                          THEN ExitWith(r.w.handles, OutName, FALSE)
                          ELSE r.w.handles
       ELSE /\ pc' = "failed"
            /\ err' = r.exc
            /\ handles' = ExitWith(r.w.handles, OutName, TRUE)
            /\ UNCHANGED <<line, col>>
    /\ UNCHANGED <<fmt, filename, history, input, output>>

Init ==
    /\ fmt \in FORMATS
    /\ filename \in FileNames
    /\ history \in SeqsUpTo(Items, MaxRecords)
    /\ pc = "open"
    /\ line = 0
    /\ col = 0
    /\ calls = <<>>
    /\ handler = NewHandler(fmt, filename)
    /\ files = [n \in {} |-> <<>>]
    /\ handles = {}
    /\ writes = <<>>
    /\ err = "none"
    /\ input = <<>>
    /\ output = <<>>

\* io.open(format_handler.filename, 'w', ...) and set_output_file
Open ==
    /\ pc = "open"
    /\ \E failAt \in 0..1 :
        IF failAt = 1
        THEN /\ pc' = "failed"
             /\ err' = "OSError"
             /\ calls' = Append(calls, Call("open", OutName, NoArg))
             /\ UNCHANGED <<fmt, filename, history, line, col, handler, files,
                            handles, writes, input, output>>
        ELSE LET w == [World EXCEPT !.files = (OutName :> <<>>) @@ @,
                                    !.handles = @ \cup {OutName},
                                    !.log = Append(@, handler.filename)]
             IN After(Call("open", OutName, NoArg),
                      set_output_file(fmt, w, [name |-> handler.filename]),
                      "header_prefix", line, col)

HeaderPrefix ==
    /\ pc = "header_prefix"
    /\ \E failAt \in 0..WritePoints("header_prefix") :
        After(Call("header_prefix", "", NoArg), Writing(failAt, header_prefix(fmt, World)),
              "header_column", line, 1)

HeaderColumn ==
    /\ pc = "header_column"
    /\ \E failAt \in 0..WritePoints("header_column") :
        After(Call("header_column", HeaderNames[col], NoArg),
              Writing(failAt, header_column(fmt, World, HeaderNames[col])),
              IF col = 15 THEN "header_suffix" ELSE "header_column", line, col + 1)

HeaderSuffix ==
    /\ pc = "header_suffix"
    /\ \E failAt \in 0..WritePoints("header_suffix") :
        After(Call("header_suffix", "", NoArg), Writing(failAt, header_suffix(fmt, World)),
              IF history = <<>> THEN "footer" ELSE "row_prefix", 1, col)

RowPrefix ==
    /\ pc = "row_prefix"
    /\ \E failAt \in 0..WritePoints("row_prefix") :
        After(Call("row_prefix", "", NoArg), Writing(failAt, row_prefix(fmt, World)),
              "row_column", line, 1)

RowColumn ==
    /\ pc = "row_column"
    /\ LET arg == RowArg(history[line], col) IN
       \E failAt \in 0..WritePoints("row_column") :
        After(Call("row_column", "", Shown(arg)),
              Writing(failAt, row_column(fmt, World, arg.content, arg.encoded)),
              IF col = 15 THEN "row_suffix" ELSE "row_column", line, col + 1)

RowSuffix ==
    /\ pc = "row_suffix"
    /\ \E failAt \in 0..WritePoints("row_suffix") :
        After(Call("row_suffix", "", NoArg),
              IF fmt = "json" THEN row_suffix(fmt, World, failAt)
              ELSE Writing(failAt, row_suffix(fmt, World, failAt)),
              IF line = Len(history) THEN "footer" ELSE "row_prefix", line + 1, col)

\* footer() and the end of the with-block
Footer ==
    /\ pc = "footer"
    /\ \E failAt \in 0..WritePoints("footer") :
        After(Call("footer", "", NoArg), Writing(failAt, footer(fmt, World)),
              "done", line, col)

Next ==
    \/ Open
    \/ HeaderPrefix
    \/ HeaderColumn
    \/ HeaderSuffix
    \/ RowPrefix
    \/ RowColumn
    \/ RowSuffix
    \/ Footer

Spec == Init /\ [][Next]_vars

(***************************************************************************)
(* Properties of a run of the converter (specification Spec)               *)
(***************************************************************************)

IsPrefix(s, t) == Len(s) <= Len(t) /\ s = SubSeq(t, 1, Len(s))
EndsWith(s, t) == Len(t) <= Len(s) /\ From(s, Len(s) - Len(t)) = t
HasText(element) == "text" \in DOMAIN element
Finished == pc \in {"done", "failed"}

\* the run as the protocol describes it
ProtocolColumns == <<"Time", "URL", "Hostname", "IP address", "Port", "Protocol",
                     "Method", "Path", "Extension", "Request", "Status",
                     "Response length", "MIME type", "Response", "Comment">>
PlainArg(text) == [encoded |-> FALSE, padded |-> TRUE, text |-> text]
BlobArg(element) ==
    IF HasText(element)
    THEN [encoded |-> TRUE, padded |-> element.text.padded, text |-> element.text.bytes]
    ELSE PlainArg(<<"N", "o", "n", "e">>)
ProtocolField(item, name) ==
    CASE name = "Time" -> PlainArg(item.time)
      [] name = "URL" -> PlainArg(item.url)
      [] name = "Hostname" -> PlainArg(item.host.text)
      [] name = "IP address" -> PlainArg(item.host.ip)
      [] name = "Port" -> PlainArg(item.port)
      [] name = "Protocol" -> PlainArg(item.protocol)
      [] name = "Method" -> PlainArg(item.method)
      [] name = "Path" -> PlainArg(item.path)
      [] name = "Extension" -> PlainArg(item.extension)
      [] name = "Request" -> BlobArg(item.request)
      [] name = "Status" -> PlainArg(item.status)
      [] name = "Response length" -> PlainArg(item.responselength)
      [] name = "MIME type" -> PlainArg(item.mimetype)
      [] name = "Response" -> BlobArg(item.response)
      [] name = "Comment" -> PlainArg(item.comment)
ProtocolRow(item) ==
    <<Call("row_prefix", "", NoArg)>>
    \o [i \in 1..15 |-> Call("row_column", "", ProtocolField(item, ProtocolColumns[i]))]
    \o <<Call("row_suffix", "", NoArg)>>
RECURSIVE ProtocolRows(_)
ProtocolRows(items) ==
    IF items = <<>> THEN <<>> ELSE ProtocolRow(Head(items)) \o ProtocolRows(Tail(items))
ProtocolCalls ==
    <<Call("open", OutName, NoArg), Call("header_prefix", "", NoArg)>>
    \o [i \in 1..15 |-> Call("header_column", ProtocolColumns[i], NoArg)]
    \o <<Call("header_suffix", "", NoArg)>>
    \o ProtocolRows(history)
    \o <<Call("footer", "", NoArg)>>

\* C1: the calls issued so far are always the beginning of the sequence open,
\* header_prefix, the 15 header_column calls, header_suffix, then per item in
\* source order row_prefix, 15 row_column calls in field order (encoded only
\* for a Request or Response text), row_suffix, and last footer; a completed
\* run has issued exactly that sequence, whatever the handler.
C1_CallSequence ==
    /\ IsPrefix(calls, ProtocolCalls)
    /\ pc = "done" => calls = ProtocolCalls

C1_Witness ==
    /\ pc = "done"
    /\ Len(history) >= 2
    /\ \E i \in 1..Len(history) : ~HasText(history[i].response)
    /\ Len(calls) = 19 + 17 * Len(history)

\* C2: a completed run with format json over N items has created exactly
\* 3 * N files.
C2_ThreeFilesPerRecord ==
    (fmt = "json" /\ pc = "done") => Cardinality(DOMAIN files) = 3 * Len(history)

\* the number of items whose row_suffix has returned
Completed == IF line = 0 THEN 0 ELSE line - 1

\* the run has failed in the row_suffix of item i on a ValueError raised for
\* the text "None" that stands for an absent request or response
FailedOnAbsentField(i) ==
    /\ pc = "failed" /\ line = i /\ err = "ValueError"
    /\ \/ ~HasText(history[i].request)
       \/ /\ ~HasText(history[i].response)
          /\ jsonFromHttp(base64decode(history[i].request.text).val).exc = "none"

\* C3: an item whose request or response text is absent never makes the run
\* fail, and once its row is complete the CSV and HTML outputs show the text
\* "None" in that column.
C3_AbsentRenderedAsNone ==
    \A i \in 1..Len(history) :
        \A c \in {10, 14} :
            (c = 10 /\ ~HasText(history[i].request)) \/ (c = 14 /\ ~HasText(history[i].response))
            => /\ ~FailedOnAbsentField(i)
               /\ (fmt = "csv" /\ Completed >= i)
                    => files[OutName][1 + i][c] = <<"N", "o", "n", "e">>
               /\ (fmt = "html" /\ Completed >= i)
                    => files[OutName][17 * i + 1 + c] = <<"<td>", "N", "o", "n", "e", "</td>">>

Stem120000 == filename \o <<"_", "1", "2", "0", "0", "0", "0", "_", "0">>

\* C4: with format json, the single item of time 12:00:00 whose request is
\* "GET /a HTTP/1.1\r\n\r\n" and whose response is absent yields the files
\* <filename>_120000_0.json (the metadata), <filename>_120000_0.req.json
\* holding body "", method GET, url /a, and <filename>_120000_0.res.json
\* holding the empty object.
C4_EndToEndJson ==
    ( /\ fmt = "json"
      /\ history = <<Item(Noon, WithText(B64(ReqA)), NoText)>>
      /\ Finished /\ err # "OSError" )
    => /\ pc = "done"
       /\ Join(Stem120000 \o <<".", "j", "s", "o", "n">>) \in DOMAIN files
       /\ Join(Stem120000 \o <<".", "r", "e", "q", ".", "j", "s", "o", "n">>) \in DOMAIN files
       /\ Join(Stem120000 \o <<".", "r", "e", "s", ".", "j", "s", "o", "n">>) \in DOMAIN files
       /\ DOMAIN files[Join(Stem120000 \o <<".", "j", "s", "o", "n">>)]
            = {"index"} \cup ({ProtocolColumns[i] : i \in 1..15} \ {"Request", "Response"})
       /\ files[Join(Stem120000 \o <<".", "r", "e", "q", ".", "j", "s", "o", "n">>)]
            = [body |-> <<>>, method |-> <<"G", "E", "T">>, url |-> <<"/", "a">>]
       /\ files[Join(Stem120000 \o <<".", "r", "e", "s", ".", "j", "s", "o", "n">>)]
            = EmptyDict

\* C8: a step that ends the run, normally or on an exception, leaves no file
\* handle open; no handle of a per-item JSON file outlives the call that wrote
\* it; and a failing step leaves every file written before it as it was.
C8_HandlesReleased ==
    [][ /\ pc' \in {"done", "failed"} => handles' = {}
        /\ handles' \subseteq {OutName}
        /\ pc' = "failed" =>
              \A n \in DOMAIN files : n \in DOMAIN files' /\ files'[n] = files[n] ]_vars

C8_Witness ==
    /\ pc = "failed"
    /\ fmt = "json"
    /\ err = "ValueError"
    /\ Len(writes) >= 3
    /\ handles = {}

JsonExt == << <<".", "j", "s", "o", "n">>,
              <<".", "r", "e", "q", ".", "j", "s", "o", "n">>,
              <<".", "r", "e", "s", ".", "j", "s", "o", "n">> >>

\* C9: with format json the row index equals the number of completed items
\* (0 at first, one more per item); the files of the i-th item (from zero)
\* are written in turn under one stem that ends in _<i>, with the suffixes
\* .json, .req.json and .res.json; and no file is opened for writing twice in
\* a run, also when items carry the same time.
C9_RowIndex ==
    fmt = "json" =>
      /\ pc # "open" => handler.rowIndex = Completed
      /\ \A k \in 2..Len(writes) :
            LET i == (k - 2) \div 3
                first == writes[2 + 3 * i]
                stem == Upto(first, Len(first) - Len(JsonExt[1]))
            IN /\ EndsWith(stem, <<"_">> \o IntToStr(i))
               /\ writes[k] = stem \o JsonExt[((k - 2) % 3) + 1]
      /\ \A j, k \in 1..Len(writes) : j # k => writes[j] # writes[k]

C9_Witness ==
    /\ fmt = "json"
    /\ pc = "done"
    /\ Len(history) >= 2
    /\ history[1].time = history[2].time
    /\ handler.rowIndex = Len(history)
    /\ Len(writes) = 1 + 3 * Len(history)

(***************************************************************************)
(* jsonFromHttp on its own (specification SpecParse)                       *)
(***************************************************************************)

StartLines == { <<"G","E","T"," ","/","a"," ","H","T","T","P","/","1",".","1">>,
                <<"H","T","T","P","/","1",".","1"," ","2","0","0"," ","O","K">> }
HeaderFieldNames == { <<"H","o","s","t">>, <<"h","o","s","t">>, <<"u","r","l">>,
                      <<"m","e","t","h","o","d">>, <<"b","o","d","y">> }
HeaderFieldValues == { <<"x">>, <<"y">> }
Bodies == { <<>>, <<"b","o","d","y">> }
HeaderFields == [name : HeaderFieldNames, value : HeaderFieldValues]

RECURSIVE HeaderBlock(_)
\* the header lines of a message, "Name: value" each ended by CRLF
HeaderBlock(fields) ==
    IF fields = <<>> THEN <<>>
    ELSE Head(fields).name \o <<":", " ">> \o Head(fields).value \o <<"\r", "\n">>
         \o HeaderBlock(Tail(fields))

\* a message: start line, header lines, blank line, body
Message(start, fields, body) ==
    [wellformed |-> TRUE, start |-> start, headers |-> fields, body |-> body,
     text |-> start \o <<"\r", "\n">> \o HeaderBlock(fields) \o <<"\r", "\n">> \o body]
\* a text that is not such a message
Raw(text) ==
    [wellformed |-> FALSE, start |-> <<>>, headers |-> <<>>, body |-> <<>>, text |-> text]

ParseInputs ==
    {Message(s, f, b) : s \in StartLines, f \in SeqsUpTo(HeaderFields, MaxHeaders), b \in Bodies}
    \cup {Raw(<<>>), Raw(NONE), Raw(NoSpace)}

FunctionInit(format) ==
    /\ fmt = format
    /\ filename \in FileNames
    /\ history = <<>>
    /\ pc = "call"
    /\ line = 0
    /\ col = 0
    /\ calls = <<>>
    /\ writes = <<>>
    /\ err = "none"
    /\ output = <<>>

ParseInit ==
    /\ FunctionInit("json")
    /\ handler = NewHandler(fmt, filename)
    /\ files = [n \in {} |-> <<>>]
    /\ handles = {}
    /\ input \in ParseInputs

\* self.jsonFromHttp(string)
ParseCall ==
    /\ pc = "call"
    /\ fmt = "json"
    /\ output' = jsonFromHttp(input.text)
    /\ pc' = "return"
    /\ UNCHANGED <<fmt, filename, history, line, col, calls, handler, files,
                   handles, writes, err, input>>

ParseNext == ParseCall

SpecParse == ParseInit /\ [][ParseNext]_vars

ExampleMessage ==
    Message(<<"G","E","T"," ","/","a"," ","H","T","T","P","/","1",".","1">>,
            <<[name |-> <<"H","o","s","t">>, value |-> <<"x">>]>>,
            <<"b","o","d","y">>)

\* C5: an empty text parses to the empty structure; the example message
\* parses to method GET, url /a, Host x and body "body"; and for every
\* message the method is the start line up to its first space, the url is
\* taken from the start line and the body is the text after the blank line,
\* whatever the headers are called.
C5_ParserContract ==
    pc = "return" =>
      /\ input.text = <<>> => output = Ok(EmptyDict)
      /\ input.wellformed =>
           /\ output.exc = "none"
           /\ output.val["method"] = Upto(input.start, Find(input.start, <<" ">>) - 1)
           /\ \E i, j \in 1..Len(input.start) :
                 output.val["url"] = SubSeq(input.start, i, j)
           /\ output.val["body"] = input.body
      /\ input = ExampleMessage =>
           /\ output.val["method"] = <<"G", "E", "T">>
           /\ output.val["url"] = <<"/", "a">>
           /\ output.val["Host"] = <<"x">>
           /\ output.val["body"] = <<"b", "o", "d", "y">>

\* the headers of the input whose name is n up to case, and exactly n
SameNameUpToCase(n) ==
    {j \in 1..Len(input.headers) : Lower(input.headers[j].name) = Lower(n)}
SameName(n) ==
    {j \in 1..Len(input.headers) : input.headers[j].name = n}

\* C10 as stated: a header name that occurs more than once in the message
\* has in the result the value of its last occurrence.
C10_LastOccurrenceWins ==
    (pc = "return" /\ input.wellformed) =>
      \A i \in 1..Len(input.headers) :
          LET n == input.headers[i].name
              last == CHOOSE j \in SameName(n) : \A k \in SameName(n) : k <= j
          IN Cardinality(SameName(n)) > 1
             => output.val[Join(n)] = input.headers[last].value

\* C10: every header name of the message other than "body" has in the result
\* the value of the first header of that name, names being compared without
\* regard to case; the entry "body" holds the body of the message.
C10_FirstOccurrenceWins ==
    (pc = "return" /\ input.wellformed) =>
      /\ \A i \in 1..Len(input.headers) :
          LET n == input.headers[i].name
              first == CHOOSE j \in SameNameUpToCase(n) :
                          \A k \in SameNameUpToCase(n) : j <= k
          IN Join(n) # "body" => output.val[Join(n)] = input.headers[first].value
      /\ output.val["body"] = input.body

C10_Witness ==
    /\ pc = "return"
    /\ input.wellformed
    /\ Len(input.headers) >= 2
    /\ input.headers[1].name = <<"H", "o", "s", "t">>
    /\ input.headers[2].name = <<"H", "o", "s", "t">>
    /\ input.headers[1].value = <<"x">>
    /\ input.headers[2].value = <<"y">>
    /\ output.val["Host"] = <<"x">>

(***************************************************************************)
(* CsvFormatHandler.row_column on its own (specification SpecCsv)          *)
(***************************************************************************)

\* a text of n characters that differ from one position to the next
LongText(n, k) == [i \in 1..n |-> Digits[((i + k) % 10) + 1]]

CellLengths ==
    {0, 1} \cup ((CELL_KEEP - CellSlack)..(CELL_KEEP + CellSlack))
           \cup ((CELL_LIMIT - CellSlack)..(CELL_LIMIT + CellSlack))

\* a value of a column: its text, and whether the document holds it as a blob
CsvInputs ==
    {[bytes |-> LongText(n, k), encoded |-> e] :
        n \in CellLengths, k \in 0..2, e \in BOOLEAN}

\* the content argument of row_column for such a value
Content(value) == IF value.encoded THEN B64(value.bytes) ELSE value.bytes

\* the handler inside a row: the output is open and row_prefix has run
OpenedWorld(format, name) ==
    LET h == NewHandler(format, name)
        w == [h |-> h, files |-> (Join(h.filename) :> <<>>),
              handles |-> {Join(h.filename)}, log |-> <<h.filename>>]
    IN row_prefix(format, set_output_file(format, w, [name |-> h.filename]).w).w

CsvInit ==
    /\ FunctionInit("csv")
    /\ handler = OpenedWorld(fmt, filename).h
    /\ files = OpenedWorld(fmt, filename).files
    /\ handles = OpenedWorld(fmt, filename).handles
    /\ input \in CsvInputs

\* format_handler.row_column(content, encoded) of the CSV handler
CsvCall ==
    /\ pc = "call"
    /\ fmt = "csv"
    /\ LET r == csv_row_column(World, Content(input), input.encoded)
       IN /\ handler' = r.w.h
          /\ files' = r.w.files
          /\ err' = r.exc
    /\ pc' = "return"
    /\ UNCHANGED <<fmt, filename, history, line, col, calls, handles, writes,
                   input, output>>

CsvNext == CsvCall

SpecCsv == CsvInit /\ [][CsvNext]_vars

\* the text of the input once decoded
DecodedInput == IF input.encoded THEN base64decode(Content(input)).val ELSE input.bytes

\* C6: the CSV cell of a text longer than 32760 characters is its first 32744
\* characters followed by "..[TRUNCATED!]"; a text of 32760 characters or
\* fewer is the cell as it is; no cell is longer than 32760 characters.
C6_CsvTruncation ==
    (pc = "return" /\ fmt = "csv") =>
      LET cell == handler.row[Len(handler.row)] IN
      /\ Len(handler.row) = 1
      /\ Len(DecodedInput) > 32760 =>
            cell = SubSeq(DecodedInput, 1, 32744)
                   \o <<".", ".", "[", "T", "R", "U", "N", "C", "A", "T", "E", "D", "!", "]">>
      /\ Len(DecodedInput) <= 32760 => cell = DecodedInput
      /\ Len(cell) <= 32760

C6_Witness ==
    /\ pc = "return"
    /\ fmt = "csv"
    /\ input.encoded
    /\ Len(DecodedInput) = 32761
    /\ Len(handler.row[1]) = 32758

(***************************************************************************)
(* HtmlFormatHandler.row_column on its own (specification SpecHtml)        *)
(***************************************************************************)

MarkupChars == {"&", "<", ">", "\"", "'", ";", "a", BadByte}
Script == <<"<", "s", "c", "r", "i", "p", "t", ">">>

HtmlInputs ==
    {[bytes |-> t, encoded |-> TRUE] : t \in SeqsUpTo(MarkupChars, MaxBlobLen) \cup {Script}}

HtmlInit ==
    /\ FunctionInit("html")
    /\ handler = OpenedWorld(fmt, filename).h
    /\ files = OpenedWorld(fmt, filename).files
    /\ handles = OpenedWorld(fmt, filename).handles
    /\ input \in HtmlInputs

\* format_handler.row_column(content, encoded) of the HTML handler
HtmlCall ==
    /\ pc = "call"
    /\ fmt = "html"
    /\ LET r == html_row_column(World, Content(input), input.encoded)
       IN /\ handler' = r.w.h
          /\ files' = r.w.files
          /\ err' = r.exc
    /\ pc' = "return"
    /\ UNCHANGED <<fmt, filename, history, line, col, calls, handles, writes,
                   input, output>>

HtmlNext == HtmlCall

SpecHtml == HtmlInit /\ [][HtmlNext]_vars

\* the character references of HTML that stand for the unsafe characters
References == { [ref |-> <<"&", "a", "m", "p", ";">>, char |-> "&"],
                [ref |-> <<"&", "l", "t", ";">>, char |-> "<"],
                [ref |-> <<"&", "g", "t", ";">>, char |-> ">"],
                [ref |-> <<"&", "q", "u", "o", "t", ";">>, char |-> "\""],
                [ref |-> <<"&", "#", "x", "2", "7", ";">>, char |-> "'"] }

\* no unsafe character stands for itself in the text
NoRawMarkup(text) ==
    \A i \in 1..Len(text) :
        /\ text[i] \notin {"<", ">", "\"", "'"}
        /\ text[i] = "&" => \E r \in References : MatchAt(text, r.ref, i)

RECURSIVE Unescape(_)
\* the text a browser shows for an escaped text
Unescape(text) ==
    IF text = <<>> THEN <<>>
    ELSE IF \E r \in References : MatchAt(text, r.ref, 1)
         THEN LET r == CHOOSE q \in References : MatchAt(text, q.ref, 1)
              IN <<r.char>> \o Unescape(From(text, Len(r.ref)))
         ELSE <<Head(text)>> \o Unescape(Tail(text))

\* the line last printed to the output, and what it holds between the tags
LastLine == files[OutName][Len(files[OutName])]
CellBody == SubSeq(LastLine, 2, Len(LastLine) - 1)

\* C7: the HTML cell of a blob is "<td><pre>", the escaped decoded text and
\* "</pre></td>": in the escaped text none of < > " ' occurs, every & begins
\* one of the references &amp; &lt; &gt; &quot; &#x27;, and replacing the
\* references gives the decoded text back; <script> is written &lt;script&gt;.
C7_HtmlEscaping ==
    (pc = "return" /\ fmt = "html") =>
      /\ Len(files[OutName]) = 2
      /\ LastLine[1] = "<td><pre>"
      /\ LastLine[Len(LastLine)] = "</pre></td>"
      /\ NoRawMarkup(CellBody)
      /\ Unescape(CellBody) = DecodedInput
      /\ input.bytes = Script =>
            CellBody = <<"&", "l", "t", ";", "s", "c", "r", "i", "p", "t", "&", "g", "t", ";">>

C7_Witness ==
    /\ pc = "return"
    /\ fmt = "html"
    /\ input.bytes = Script
    /\ CellBody = <<"&", "l", "t", ";", "s", "c", "r", "i", "p", "t", "&", "g", "t", ";">>
=============================================================================
